---- MODULE Spec2Model ----
(***************************************************************************)
(* Model of src/data/export_to_protobuf.py: export_to_protobuf() loads two *)
(* pickled name mappings, projects every entry into a NameDataset message, *)
(* writes three serialized .pb files, gzips each one and removes the       *)
(* uncompressed file.  The run is one sequential process; pc is its        *)
(* position in the function body.                                          *)
(***************************************************************************)
EXTENDS Integers, Sequences, FiniteSets, TLC

\* ------------------------------------------------------------------------
\* Bounds of the input space
\* ------------------------------------------------------------------------

\* Largest number of entries in the two input mappings together.
MaxEntries == 2

\* Largest size of the two input mappings together: every attribute key
\* ('country', 'gender', 'rank') that is present counts 1, and so does every
\* item of a sub-mapping.
MaxSize == 3

Names == {"Alice", "Smith"}
Countries == {"US", "ES"}
Genders == {"F"}
\* Probabilities, in tenths.
Probs == {9}
Ranks == {5}

\* Python's None, and a value that is not None, as stored in a 'rank'
\* sub-mapping.
NoneVal == <<>>
Some(r) == <<r>>
RankVals == {NoneVal} \cup {Some(r) : r \in Ranks}

AttrKeys == {"country", "gender", "rank"}

\* The empty dict / the empty protobuf map.
EmptyMap == [k \in {} |-> 0]

SubMaps(K, V) == UNION {[S -> V] : S \in SUBSET K}

\* The attributes dict of one name: only the keys in S are present.
MkData(S, c, g, r) ==
    [k \in S |-> CASE k = "country" -> c
                   [] k = "gender" -> g
                   [] k = "rank" -> r]

AllData ==
    {MkData(S, c, g, r) : S \in SUBSET AttrKeys,
                          c \in SubMaps(Countries, Probs),
                          g \in SubMaps(Genders, Probs),
                          r \in SubMaps(Countries, RankVals)}

DataSize(d) ==
    Cardinality(DOMAIN d)
    + (IF "country" \in DOMAIN d THEN Cardinality(DOMAIN d["country"]) ELSE 0)
    + (IF "gender" \in DOMAIN d THEN Cardinality(DOMAIN d["gender"]) ELSE 0)
    + (IF "rank" \in DOMAIN d THEN Cardinality(DOMAIN d["rank"]) ELSE 0)

BoundedData == {d \in AllData : DataSize(d) <= MaxSize}

RECURSIVE MappingSize(_)
MappingSize(m) ==
    IF m = <<>> THEN 0 ELSE DataSize(Head(m).data) + MappingSize(Tail(m))

MinOf(a, b) == IF a < b THEN a ELSE b

\* A dict is modelled as the sequence of its items in iteration order; its
\* keys are distinct.
Mappings ==
    UNION {
        {m \in [1..n -> [name : Names, data : BoundedData]] :
            /\ \A i, j \in 1..n : i # j => m[i].name # m[j].name
            /\ MappingSize(m) <= MaxSize}
        : n \in 0..MinOf(MaxEntries, Cardinality(Names))}

\* ------------------------------------------------------------------------
\* dict.get(key, {}) and the copy loops of the projection
\* ------------------------------------------------------------------------

Get(data, key) == IF key \in DOMAIN data THEN data[key] ELSE EmptyMap

\* The value a map field of the schema keeps for an assigned probability and
\* for an assigned rank. The schema (proto/names.proto, compiled to
\* names_pb2) declares the value types of the three maps; the specification
\* has them hold the assigned float and integer unchanged.
ProbField(v) == v
RankField(v) == v

\* m[k] = v on a protobuf map field
MapSet(m, k, v) ==
    [x \in (DOMAIN m) \cup {k} |-> IF x = k THEN v ELSE m[x]]

\* for k, v in src.items(): dst[k] = v
RECURSIVE CopyItems(_, _)
CopyItems(src, dst) ==
    IF DOMAIN src = {} THEN dst
    ELSE LET k == CHOOSE x \in DOMAIN src : TRUE
             rest == [x \in (DOMAIN src) \ {k} |-> src[x]]
         IN CopyItems(rest, MapSet(dst, k, ProbField(src[k])))

\* Variant of CopyRanks: a null rank is stored as 0 instead of being skipped.
RECURSIVE CopyRanksSentinel(_, _)
CopyRanksSentinel(src, dst) ==
    IF DOMAIN src = {} THEN dst
    ELSE LET k == CHOOSE x \in DOMAIN src : TRUE
             rest == [x \in (DOMAIN src) \ {k} |-> src[x]]
         IN CopyRanksSentinel(rest, IF src[k] # NoneVal
                                    THEN MapSet(dst, k, RankField(src[k][1]))
                                    ELSE MapSet(dst, k, 0))

\* for country, rank in src.items(): if rank is not None: dst[country] = rank
RECURSIVE CopyRanks(_, _)
CopyRanks(src, dst) ==
    IF DOMAIN src = {} THEN dst
    ELSE LET k == CHOOSE x \in DOMAIN src : TRUE
             rest == [x \in (DOMAIN src) \ {k} |-> src[x]]
         IN CopyRanks(rest, IF src[k] # NoneVal
                            THEN MapSet(dst, k, RankField(src[k][1]))
                            ELSE dst)

\* entries.add(): a new entry with every field at its default
NewEntry == [name |-> "", country |-> EmptyMap, gender |-> EmptyMap,
             rank |-> EmptyMap]

\* The body of the first-names loop for one item of the dict.
FirstEntry(name, data) ==
    [name |-> name,
     country |-> CopyItems(Get(data, "country"), NewEntry.country),
     gender |-> CopyItems(Get(data, "gender"), NewEntry.gender),
     rank |-> CopyRanks(Get(data, "rank"), NewEntry.rank)]

\* Variant of LastEntry: the gender sub-mapping is not copied.
LastEntryNoGender(name, data) ==
    [name |-> name,
     country |-> CopyItems(Get(data, "country"), NewEntry.country),
     gender |-> NewEntry.gender,
     rank |-> CopyRanks(Get(data, "rank"), NewEntry.rank)]

\* The body of the last-names loop for one item of the dict.
LastEntry(name, data) ==
    [name |-> name,
     country |-> CopyItems(Get(data, "country"), NewEntry.country),
     gender |-> CopyItems(Get(data, "gender"), NewEntry.gender),
     rank |-> CopyRanks(Get(data, "rank"), NewEntry.rank)]

\* ------------------------------------------------------------------------
\* SerializeToString / ParseFromString of the messages, and gzip
\* ------------------------------------------------------------------------

\* The strings of the model, encoded on the wire by their index.
StrTable == <<"Alice", "Smith", "US", "ES", "F">>
StrCode(s) == CHOOSE i \in DOMAIN StrTable : StrTable[i] = s

\* Field numbers of an entry.
EntryFields == <<"name", "country", "gender", "rank">>
Tag(f) == CHOOSE i \in DOMAIN EntryFields : EntryFields[i] = f

\* A map field: one (tag, key, value) triple per item.
RECURSIVE SerializeMap(_, _)
SerializeMap(tag, m) ==
    IF DOMAIN m = {} THEN <<>>
    ELSE LET k == CHOOSE x \in DOMAIN m : TRUE
             rest == [x \in (DOMAIN m) \ {k} |-> m[x]]
         IN <<tag, StrCode(k), m[k]>> \o SerializeMap(tag, rest)

\* A field at its default value is not written.
SerializeEntry(e) ==
    (IF e.name = "" THEN <<>> ELSE <<Tag("name"), StrCode(e.name)>>)
    \o SerializeMap(Tag("country"), e.country)
    \o SerializeMap(Tag("gender"), e.gender)
    \o SerializeMap(Tag("rank"), e.rank)

\* NameDataset: repeated entries, each length-delimited.
RECURSIVE SerializeDataset(_)
SerializeDataset(ds) ==
    IF ds = <<>> THEN <<>>
    ELSE LET p == SerializeEntry(Head(ds))
         IN <<1, Len(p)>> \o p \o SerializeDataset(Tail(ds))

\* CombinedNameDataset: first_names and last_names, both set by CopyFrom.
SerializeCombined(c) ==
    LET sf == SerializeDataset(c.first_names)
        sl == SerializeDataset(c.last_names)
    IN <<1, Len(sf)>> \o sf \o <<2, Len(sl)>> \o sl

RECURSIVE ParseEntryInto(_, _)
ParseEntryInto(b, e) ==
    IF b = <<>> THEN e
    ELSE IF b[1] = Tag("name")
         THEN ParseEntryInto(SubSeq(b, 3, Len(b)),
                             [e EXCEPT !.name = StrTable[b[2]]])
    ELSE LET f == EntryFields[b[1]]
         IN ParseEntryInto(SubSeq(b, 4, Len(b)),
                           [e EXCEPT ![f] = MapSet(e[f], StrTable[b[2]], b[3])])

ParseEntry(b) == ParseEntryInto(b, NewEntry)

RECURSIVE ParseDataset(_)
ParseDataset(b) ==
    IF b = <<>> THEN <<>>
    ELSE <<ParseEntry(SubSeq(b, 3, 2 + b[2]))>>
         \o ParseDataset(SubSeq(b, 3 + b[2], Len(b)))

RECURSIVE ParseCombinedInto(_, _)
ParseCombinedInto(b, c) ==
    IF b = <<>> THEN c
    ELSE LET ds == ParseDataset(SubSeq(b, 3, 2 + b[2]))
             rest == SubSeq(b, 3 + b[2], Len(b))
         IN IF b[1] = 1
            THEN ParseCombinedInto(rest, [c EXCEPT !.first_names = ds])
            ELSE ParseCombinedInto(rest, [c EXCEPT !.last_names = ds])

\* names_pb2.CombinedNameDataset()
NewCombined == [first_names |-> <<>>, last_names |-> <<>>]

ParseCombined(b) == ParseCombinedInto(b, NewCombined)

\* A gzip stream: header, payload, trailer holding the payload's length.
Gzip(b) == <<31>> \o b \o <<Len(b)>>
IsGzip(z) == Len(z) >= 2 /\ z[1] = 31 /\ z[Len(z)] = Len(z) - 2
Gunzip(z) == SubSeq(z, 2, Len(z) - 1)

\* ------------------------------------------------------------------------
\* State
\* ------------------------------------------------------------------------

VARIABLES
    bindings,       \* whether 'from proto import names_pb2' can be imported
    inputs,         \* the two input files under names_dataset/v3
    fs0,            \* the output directory as it was when the run started
    fs,             \* the output directory
    pc,             \* position of the run in export_to_protobuf
    first_names,    \* the loaded first-names dict
    last_names,     \* the loaded last-names dict
    first_dataset,  \* names_pb2.NameDataset of the first names
    last_dataset,   \* names_pb2.NameDataset of the last names
    combined,       \* names_pb2.CombinedNameDataset
    idx,            \* position of the compression loop in its file list
    sizes,          \* sizes reported for the .pb.gz files
    ops,            \* file operations performed so far, in order
    result          \* what the call gave its caller

vars == <<bindings, inputs, fs0, fs, pc, first_names, last_names,
          first_dataset, last_dataset, combined, idx, sizes, ops, result>>

FirstPkl == "first_names.pkl.gz"
LastPkl == "last_names.pkl.gz"
InFiles == {FirstPkl, LastPkl}

\* The list of the compression loop, and the .gz name of each file.
PbFiles == <<"first_names.pb", "last_names.pb", "combined_names.pb">>
GzName(f) ==
    CASE f = "first_names.pb" -> "first_names.pb.gz"
      [] f = "last_names.pb" -> "last_names.pb.gz"
      [] f = "combined_names.pb" -> "combined_names.pb.gz"
GzFiles == <<GzName(PbFiles[1]), GzName(PbFiles[2]), GzName(PbFiles[3])>>
OutFiles == {PbFiles[i] : i \in 1..3} \cup {GzFiles[i] : i \in 1..3}

NoFile == [exists |-> FALSE, bytes |-> <<>>]
File(b) == [exists |-> TRUE, bytes |-> b]

\* An output directory with no output file, and the one an earlier run on
\* two empty mappings has left.
EmptyDir == [f \in OutFiles |-> NoFile]
EarlierRunDir ==
    [f \in OutFiles |->
        CASE f = GzFiles[1] -> File(Gzip(SerializeDataset(<<>>)))
          [] f = GzFiles[2] -> File(Gzip(SerializeDataset(<<>>)))
          [] f = GzFiles[3] -> File(Gzip(SerializeCombined(NewCombined)))
          [] OTHER -> NoFile]

InputFiles == {NoFile} \cup {[exists |-> TRUE, bytes |-> m] : m \in Mappings}

InputLen(f) == Len(f.bytes)
InputSize(f) == MappingSize(f.bytes)

Init ==
    /\ bindings \in BOOLEAN
    /\ \E a \in InputFiles :
         \E b \in {x \in InputFiles :
                     /\ InputLen(a) + InputLen(x) <= MaxEntries
                     /\ InputSize(a) + InputSize(x) <= MaxSize} :
            inputs = [f \in InFiles |-> IF f = FirstPkl THEN a ELSE b]
    /\ fs0 \in {EmptyDir, EarlierRunDir}
    /\ fs = fs0
    /\ pc = "import"
    /\ first_names = <<>>
    /\ last_names = <<>>
    /\ first_dataset = <<>>
    /\ last_dataset = <<>>
    /\ combined = NewCombined
    /\ idx = 1
    /\ sizes = <<>>
    /\ ops = <<>>
    /\ result = "none"

Op(kind, path, ok) == [op |-> kind, path |-> path, ok |-> ok]

\* An exception leaves the function: nothing after the failing statement runs.
Raise == pc' = "done" /\ result' = "raised"

\* ------------------------------------------------------------------------
\* The steps of export_to_protobuf
\* ------------------------------------------------------------------------

\* Variant of ImportBindings: the ImportError is swallowed and the run goes on.
ImportBindingsUnchecked ==
    /\ pc = "import"
    /\ pc' = "load_first"
    /\ UNCHANGED <<bindings, inputs, fs0, fs, first_names, last_names,
                   first_dataset, last_dataset, combined, idx, sizes, ops,
                   result>>

\* try: from proto import names_pb2 / except ImportError: return False
ImportBindings ==
    /\ pc = "import"
    /\ IF bindings
       THEN pc' = "load_first" /\ result' = result
       ELSE pc' = "done" /\ result' = "False"
    /\ UNCHANGED <<bindings, inputs, fs0, fs, first_names, last_names,
                   first_dataset, last_dataset, combined, idx, sizes, ops>>

\* with gzip.open(first_path, 'rb') as f: first_names = pickle.load(f)
LoadFirst ==
    /\ pc = "load_first"
    /\ ops' = Append(ops, Op("load", FirstPkl, inputs[FirstPkl].exists))
    /\ IF inputs[FirstPkl].exists
       THEN /\ first_names' = inputs[FirstPkl].bytes
            /\ pc' = "load_last"
            /\ result' = result
       ELSE /\ Raise
            /\ first_names' = first_names
    /\ UNCHANGED <<bindings, inputs, fs0, fs, last_names, first_dataset,
                   last_dataset, combined, idx, sizes>>

\* Variant of LoadLast: a missing file is taken for an empty mapping.
LoadLastMissingAsEmpty ==
    /\ pc = "load_last"
    /\ ops' = Append(ops, Op("load", LastPkl, inputs[LastPkl].exists))
    /\ last_names' = inputs[LastPkl].bytes
    /\ pc' = "convert_first"
    /\ UNCHANGED <<bindings, inputs, fs0, fs, first_names, first_dataset,
                   last_dataset, combined, idx, sizes, result>>

\* with gzip.open(last_path, 'rb') as f: last_names = pickle.load(f)
LoadLast ==
    /\ pc = "load_last"
    /\ ops' = Append(ops, Op("load", LastPkl, inputs[LastPkl].exists))
    /\ IF inputs[LastPkl].exists
       THEN /\ last_names' = inputs[LastPkl].bytes
            /\ pc' = "convert_first"
            /\ result' = result
       ELSE /\ Raise
            /\ last_names' = last_names
    /\ UNCHANGED <<bindings, inputs, fs0, fs, first_names, first_dataset,
                   last_dataset, combined, idx, sizes>>

\* Variant of ConvertFirstEntry: the new entry is put in front.
ConvertFirstEntryPrepend ==
    /\ pc = "convert_first"
    /\ Len(first_dataset) < Len(first_names)
    /\ LET item == first_names[Len(first_dataset) + 1]
       IN first_dataset' =
              <<FirstEntry(item.name, item.data)>> \o first_dataset
    /\ UNCHANGED <<bindings, inputs, fs0, fs, pc, first_names, last_names,
                   last_dataset, combined, idx, sizes, ops, result>>

\* One iteration of 'for name, data in first_names.items()'.
ConvertFirstEntry ==
    /\ pc = "convert_first"
    /\ Len(first_dataset) < Len(first_names)
    /\ LET item == first_names[Len(first_dataset) + 1]
       IN first_dataset' =
              Append(first_dataset, FirstEntry(item.name, item.data))
    /\ UNCHANGED <<bindings, inputs, fs0, fs, pc, first_names, last_names,
                   last_dataset, combined, idx, sizes, ops, result>>

\* The first-names loop is exhausted.
ConvertFirstDone ==
    /\ pc = "convert_first"
    /\ Len(first_dataset) = Len(first_names)
    /\ pc' = "convert_last"
    /\ UNCHANGED <<bindings, inputs, fs0, fs, first_names, last_names,
                   first_dataset, last_dataset, combined, idx, sizes, ops,
                   result>>

\* One iteration of 'for name, data in last_names.items()'.
ConvertLastEntry ==
    /\ pc = "convert_last"
    /\ Len(last_dataset) < Len(last_names)
    /\ LET item == last_names[Len(last_dataset) + 1]
       IN last_dataset' =
              Append(last_dataset, LastEntry(item.name, item.data))
    /\ UNCHANGED <<bindings, inputs, fs0, fs, pc, first_names, last_names,
                   first_dataset, combined, idx, sizes, ops, result>>

\* The last-names loop is exhausted.
ConvertLastDone ==
    /\ pc = "convert_last"
    /\ Len(last_dataset) = Len(last_names)
    /\ pc' = "combine"
    /\ UNCHANGED <<bindings, inputs, fs0, fs, first_names, last_names,
                   first_dataset, last_dataset, combined, idx, sizes, ops,
                   result>>

\* Variant of CombinedOf: the two datasets are exchanged.
CombinedOfSwapped(first, last) == [first_names |-> last, last_names |-> first]

\* combined.first_names.CopyFrom(first_dataset);
\* combined.last_names.CopyFrom(last_dataset)
CombinedOf(first, last) == [first_names |-> first, last_names |-> last]

Combine ==
    /\ pc = "combine"
    /\ combined' = CombinedOf(first_dataset, last_dataset)
    /\ pc' = "write_first"
    /\ UNCHANGED <<bindings, inputs, fs0, fs, first_names, last_names,
                   first_dataset, last_dataset, idx, sizes, ops, result>>

\* What a write of b that fails half way leaves in the file opened with
\* "wb": a strict prefix of b, of which the model keeps the longest one.
Truncated(b) == IF b = <<>> THEN {} ELSE {SubSeq(b, 1, Len(b) - 1)}

\* Variant of WriteFile: a failure is ignored and the run goes on.
WriteFileIgnoringErrors(path, b, next) ==
    \/ /\ fs' = [fs EXCEPT ![path] = File(b)]
       /\ ops' = Append(ops, Op("write", path, TRUE))
       /\ pc' = next
       /\ result' = result
    \/ /\ fs' = fs
       /\ ops' = Append(ops, Op("write", path, FALSE))
       /\ pc' = next
       /\ result' = result

\* with open(path, "wb") as f: f.write(b), then go to next.  The open fails
\* when the destination is not writable; the write can fail after it.
WriteFile(path, b, next) ==
    \/ /\ fs' = [fs EXCEPT ![path] = File(b)]
       /\ ops' = Append(ops, Op("write", path, TRUE))
       /\ pc' = next
       /\ result' = result
    \/ /\ fs' = fs
       /\ ops' = Append(ops, Op("write", path, FALSE))
       /\ Raise
    \/ \E t \in Truncated(b) :
          /\ fs' = [fs EXCEPT ![path] = File(t)]
          /\ ops' = Append(ops, Op("write", path, FALSE))
          /\ Raise

WriteFirst ==
    /\ pc = "write_first"
    /\ WriteFile(PbFiles[1], SerializeDataset(first_dataset), "write_last")
    /\ UNCHANGED <<bindings, inputs, fs0, first_names, last_names,
                   first_dataset, last_dataset, combined, idx, sizes>>

WriteLast ==
    /\ pc = "write_last"
    /\ WriteFile(PbFiles[2], SerializeDataset(last_dataset), "write_combined")
    /\ UNCHANGED <<bindings, inputs, fs0, first_names, last_names,
                   first_dataset, last_dataset, combined, idx, sizes>>

WriteCombined ==
    /\ pc = "write_combined"
    /\ WriteFile(PbFiles[3], SerializeCombined(combined), "compress")
    /\ UNCHANGED <<bindings, inputs, fs0, first_names, last_names,
                   first_dataset, last_dataset, combined, idx, sizes>>

\* Variant of CompressFile: the uncompressed file is removed whether or not
\* the compressed one was written completely.
CompressFileSwallowing ==
    /\ pc = "compress"
    /\ LET filename == PbFiles[idx]
           gz == GzName(filename)
           z == Gzip(fs[filename].bytes)
       IN \/ /\ fs' = [fs EXCEPT ![gz] = File(z)]
             /\ ops' = Append(ops, Op("compress", gz, TRUE))
          \/ \E t \in Truncated(z) :
                /\ fs' = [fs EXCEPT ![gz] = File(t)]
                /\ ops' = Append(ops, Op("compress", gz, FALSE))
    /\ pc' = "unlink"
    /\ UNCHANGED <<bindings, inputs, fs0, first_names, last_names,
                   first_dataset, last_dataset, combined, idx, sizes, result>>

\* with open(filename, "rb") as f_in:
\*     with gzip.open(filename + ".gz", "wb") as f_out:
\*         f_out.write(f_in.read())
CompressFile ==
    /\ pc = "compress"
    /\ LET filename == PbFiles[idx]
           gz == GzName(filename)
           z == Gzip(fs[filename].bytes)
       IN \/ /\ fs' = [fs EXCEPT ![gz] = File(z)]
             /\ ops' = Append(ops, Op("compress", gz, TRUE))
             /\ pc' = "unlink"
             /\ result' = result
          \/ /\ fs' = fs
             /\ ops' = Append(ops, Op("compress", gz, FALSE))
             /\ Raise
          \/ \E t \in Truncated(z) :
                /\ fs' = [fs EXCEPT ![gz] = File(t)]
                /\ ops' = Append(ops, Op("compress", gz, FALSE))
                /\ Raise
    /\ UNCHANGED <<bindings, inputs, fs0, first_names, last_names,
                   first_dataset, last_dataset, combined, idx, sizes>>

\* Variant of UnlinkFile: the uncompressed file is left in place.
UnlinkFileKeeps ==
    /\ pc = "unlink"
    /\ ops' = Append(ops, Op("unlink", PbFiles[idx], TRUE))
    /\ IF idx < Len(PbFiles)
       THEN idx' = idx + 1 /\ pc' = "compress"
       ELSE idx' = idx /\ pc' = "report"
    /\ UNCHANGED <<bindings, inputs, fs0, fs, first_names, last_names,
                   first_dataset, last_dataset, combined, sizes, result>>

\* (output_dir / filename).unlink(), and the loop goes on to the next file.
UnlinkFile ==
    /\ pc = "unlink"
    /\ fs' = [fs EXCEPT ![PbFiles[idx]] = NoFile]
    /\ ops' = Append(ops, Op("unlink", PbFiles[idx], TRUE))
    /\ IF idx < Len(PbFiles)
       THEN idx' = idx + 1 /\ pc' = "compress"
       ELSE idx' = idx /\ pc' = "report"
    /\ UNCHANGED <<bindings, inputs, fs0, first_names, last_names,
                   first_dataset, last_dataset, combined, sizes, result>>

\* for filename in [...]: filepath.stat().st_size
Report ==
    /\ pc = "report"
    /\ IF \A i \in 1..3 : fs[GzFiles[i]].exists
       THEN /\ sizes' = [i \in 1..3 |-> Len(fs[GzFiles[i]].bytes)]
            /\ pc' = "return"
            /\ result' = result
       ELSE /\ sizes' = sizes
            /\ Raise
    /\ UNCHANGED <<bindings, inputs, fs0, fs, first_names, last_names,
                   first_dataset, last_dataset, combined, idx, ops>>

\* return True
ReturnTrue ==
    /\ pc = "return"
    /\ result' = "True"
    /\ pc' = "done"
    /\ UNCHANGED <<bindings, inputs, fs0, fs, first_names, last_names,
                   first_dataset, last_dataset, combined, idx, sizes, ops>>

Next ==
    \/ ImportBindings
    \/ LoadFirst
    \/ LoadLast
    \/ ConvertFirstEntry
    \/ ConvertFirstDone
    \/ ConvertLastEntry
    \/ ConvertLastDone
    \/ Combine
    \/ WriteFirst
    \/ WriteLast
    \/ WriteCombined
    \/ CompressFile
    \/ UnlinkFile
    \/ Report
    \/ ReturnTrue

Spec == Init /\ [][Next]_vars

\* ------------------------------------------------------------------------
\* Vocabulary of the properties
\* ------------------------------------------------------------------------

FirstInput == inputs[FirstPkl].bytes
LastInput == inputs[LastPkl].bytes

\* A sub-mapping of an input entry; a missing one counts as empty.
SubMapping(data, key) == IF key \in DOMAIN data THEN data[key] ELSE EmptyMap

\* A 'rank' sub-mapping restricted to the keys whose value is not null.
NonNullRanks(r) == [c \in {x \in DOMAIN r : r[x] # NoneVal} |-> r[c][1]]

NamesOf(s) == {s[i].name : i \in DOMAIN s}

\* What decoding each compressed output file gives.
DecodedFirst == ParseDataset(Gunzip(fs[GzFiles[1]].bytes))
DecodedLast == ParseDataset(Gunzip(fs[GzFiles[2]].bytes))
DecodedCombined == ParseCombined(Gunzip(fs[GzFiles[3]].bytes))

Succeeded == pc = "done" /\ result = "True"

\* Dataset ds carries the names and attributes of input mapping m.
Reproduces(ds, m) ==
    /\ NamesOf(ds) = NamesOf(m)
    /\ Len(ds) = Len(m)
    /\ \A i \in DOMAIN m : \A j \in DOMAIN ds :
          ds[j].name = m[i].name =>
             /\ ds[j].country = SubMapping(m[i].data, "country")
             /\ ds[j].gender = SubMapping(m[i].data, "gender")
             /\ ds[j].rank = NonNullRanks(SubMapping(m[i].data, "rank"))

C1_WitnessLast ==
    /\ Succeeded
    /\ \E i \in DOMAIN LastInput :
          /\ SubMapping(LastInput[i].data, "gender") # EmptyMap
          /\ DecodedLast[i].gender = LastInput[i].data["gender"]

\* The rank maps of the entries projected so far, against their inputs.
RanksFiltered(ds, m) ==
    \A j \in DOMAIN ds :
        LET r == SubMapping(m[j].data, "rank")
            out == ds[j].rank
        IN /\ \A c \in DOMAIN out : c \in DOMAIN r /\ r[c] # NoneVal
           /\ \A c \in DOMAIN r :
                 /\ r[c] = NoneVal => c \notin DOMAIN out
                 /\ r[c] # NoneVal => c \in DOMAIN out /\ Some(out[c]) = r[c]

\* C2: in both datasets, a country whose rank is null or that is missing
\* from the input 'rank' sub-mapping is not a key of the entry's rank map,
\* and every country with a non-null rank is a key with that rank.
C2_NullRanksAbsent ==
    /\ RanksFiltered(first_dataset, first_names)
    /\ RanksFiltered(last_dataset, last_names)

\* An entry whose input ranks hold a null and a non-null value has been
\* projected in each dataset (in two different runs).
MixedRanks(ds, m) ==
    \E j \in DOMAIN ds :
        LET r == SubMapping(m[j].data, "rank")
        IN /\ \E c \in DOMAIN r : r[c] = NoneVal
           /\ \E c \in DOMAIN r : r[c] # NoneVal
           /\ Cardinality(DOMAIN ds[j].rank) = 1

C2_Witness == MixedRanks(first_dataset, first_names)

C2_WitnessLast == MixedRanks(last_dataset, last_names)

\* The entries projected so far are the first items of the mapping, one
\* record per item and in its order, and an attribute with no data gives an
\* empty map.
InOrder(ds, m) ==
    /\ Len(ds) <= Len(m)
    /\ \A i \in DOMAIN ds :
          /\ ds[i].name = m[i].name
          /\ \A k \in AttrKeys :
                SubMapping(m[i].data, k) = EmptyMap => ds[i][k] = EmptyMap

\* C6: the projection gives one record per input entry, in the iteration
\* order of the mapping; an entry without country, gender or rank data still
\* gives a record, with empty maps.
C6_OneRecordPerEntryInOrder ==
    /\ InOrder(first_dataset, first_names)
    /\ InOrder(last_dataset, last_names)
    /\ pc \in {"convert_last", "combine", "write_first", "write_last",
               "write_combined", "compress", "unlink", "report", "return"}
          => Len(first_dataset) = Len(first_names)
    /\ pc \in {"combine", "write_first", "write_last", "write_combined",
               "compress", "unlink", "report", "return"}
          => Len(last_dataset) = Len(last_names)
    /\ result = "True" =>
          /\ Len(first_dataset) = Len(FirstInput)
          /\ Len(last_dataset) = Len(LastInput)

\* A completed run on a first-names mapping of two entries, the first of
\* which has no attribute at all.
C6_Witness ==
    /\ result = "True"
    /\ Len(FirstInput) = 2
    /\ DOMAIN FirstInput[1].data = {}
    /\ first_dataset[1] = [NewEntry EXCEPT !.name = FirstInput[1].name]
    /\ first_dataset[2].name = FirstInput[2].name
    /\ first_dataset[2].name # first_dataset[1].name

\* C8: every record of the last-names dataset has an empty gender map,
\* whatever the last-names input is.
C8_LastGenderEmpty ==
    \A j \in DOMAIN last_dataset : last_dataset[j].gender = EmptyMap

\* C3: after a successful run, decoding the combined file gives a first-names
\* dataset and a last-names dataset identical (same entries, same order,
\* same maps) to what decoding first_names.pb.gz and last_names.pb.gz gives.
C3_CombinedMatchesSingles ==
    Succeeded =>
        /\ IsGzip(fs[GzFiles[3]].bytes)
        /\ DecodedCombined.first_names = DecodedFirst
        /\ DecodedCombined.last_names = DecodedLast

\* A successful run whose two datasets are not empty and differ.
C3_Witness ==
    /\ Succeeded
    /\ DecodedFirst # <<>>
    /\ DecodedLast # <<>>
    /\ DecodedFirst # DecodedLast
    /\ DecodedCombined.first_names = DecodedFirst

InputMissing == ~inputs[FirstPkl].exists \/ ~inputs[LastPkl].exists

Failed == pc = "done" /\ result \in {"False", "raised"}

\* C4: if one of the two input files is missing, the run never succeeds, it
\* ends in failure (the exception of the failed open reaches the caller),
\* and the output directory is never changed: no .pb and no .pb.gz file is
\* created, also when only the second input is missing.
C4_MissingInputNoOutput ==
    InputMissing =>
        /\ fs = fs0
        /\ \A i \in DOMAIN ops : ops[i].op = "load"
        /\ result # "True"
        /\ pc = "done" => Failed
        /\ pc \notin {"convert_first", "convert_last", "combine",
                      "write_first", "write_last", "write_combined",
                      "compress", "unlink", "report", "return"}

\* The first input was loaded, the second is missing, and the run has ended
\* with the exception.
C4_Witness ==
    /\ bindings
    /\ inputs[FirstPkl].exists
    /\ Len(first_names) > 0
    /\ ~inputs[LastPkl].exists
    /\ pc = "done"
    /\ result = "raised"
    /\ fs = EmptyDir

\* C5: when the generated bindings cannot be imported, the run ends by
\* returning False before any file operation: no input is opened, and no
\* output file is created or removed.
C5_NoBindingsNoIO ==
    ~bindings =>
        /\ ops = <<>>
        /\ fs = fs0
        /\ first_names = <<>> /\ last_names = <<>>
        /\ pc \in {"import", "done"}
        /\ pc = "done" => result = "False"

\* The run has returned False although both inputs are there and earlier
\* outputs exist.
C5_Witness ==
    /\ ~bindings
    /\ pc = "done"
    /\ result = "False"
    /\ inputs[FirstPkl].exists /\ inputs[LastPkl].exists
    /\ Len(inputs[FirstPkl].bytes) > 0
    /\ fs = EarlierRunDir

\* C7: whenever the run returns success, the three .pb.gz files exist and
\* hold the compressed serialization of the first-names dataset, of the
\* last-names dataset and of the combined dataset, and none of the three
\* uncompressed .pb files remains.
C7_SuccessOutputs ==
    result = "True" =>
        /\ fs[GzFiles[1]] = File(Gzip(SerializeDataset(first_dataset)))
        /\ fs[GzFiles[2]] = File(Gzip(SerializeDataset(last_dataset)))
        /\ fs[GzFiles[3]] = File(Gzip(SerializeCombined(combined)))
        /\ \A i \in 1..3 : ~fs[PbFiles[i]].exists
        /\ sizes = [i \in 1..3 |-> Len(fs[GzFiles[i]].bytes)]

\* A successful run that has replaced the outputs of an earlier run by
\* those of two non-empty inputs.
C7_Witness ==
    /\ result = "True"
    /\ fs0 = EarlierRunDir
    /\ first_dataset # <<>>
    /\ last_dataset # <<>>
    /\ \A i \in 1..3 : fs[GzFiles[i]] # fs0[GzFiles[i]]

FailedOp(i) == ops[i].op \in {"write", "compress"} /\ ~ops[i].ok

\* C9: a failed write or a failed compression is the last file operation of
\* the run: the run ends there with the exception, so no later output is
\* written or compressed, no operation is tried twice, and the success
\* return is never reached.
C9_WriteFailureAborts ==
    /\ \A i \in DOMAIN ops :
          FailedOp(i) => /\ i = Len(ops)
                         /\ pc = "done"
                         /\ result = "raised"
    /\ Cardinality({<<ops[i].op, ops[i].path>> : i \in DOMAIN ops}) = Len(ops)

\* The write of last_names.pb has failed after first_names.pb was written.
C9_Witness ==
    /\ Len(ops) = 4
    /\ ops[3] = Op("write", PbFiles[1], TRUE)
    /\ ops[4] = Op("write", PbFiles[2], FALSE)
    /\ fs[PbFiles[1]].exists
    /\ ~fs[PbFiles[3]].exists
    /\ result = "raised"

OkWrites == {i \in DOMAIN ops : ops[i].op = "write" /\ ops[i].ok}
WritePhaseDone == Cardinality(OkWrites) = 3

\* The serialized message that output i holds.
Payload(i) ==
    CASE i = 1 -> SerializeDataset(first_dataset)
      [] i = 2 -> SerializeDataset(last_dataset)
      [] i = 3 -> SerializeCombined(combined)

\* C10: the three .pb files are written before any compression starts; a
\* .pb file is removed only after its own .pb.gz was written completely;
\* so once the three are written every output exists as .pb or, complete,
\* as .pb.gz, and a failed compression of output k leaves the .pb files of
\* k and of the later outputs on disk.
C10_OutputPhaseOrder ==
    /\ \A i \in DOMAIN ops :
          ops[i].op = "compress" =>
             /\ WritePhaseDone
             /\ \A j \in OkWrites : j < i
    /\ \A i \in DOMAIN ops :
          ops[i].op = "unlink" =>
             \E j \in 1..(i - 1) :
                ops[j] = Op("compress", GzName(ops[i].path), TRUE)
    /\ WritePhaseDone =>
          /\ \A n \in 1..3 :
                \/ fs[PbFiles[n]].exists
                \/ fs[GzFiles[n]] = File(Gzip(Payload(n)))
          /\ \A k \in 1..3 :
                (/\ ops[Len(ops)].op = "compress"
                 /\ ~ops[Len(ops)].ok
                 /\ ops[Len(ops)].path = GzFiles[k])
                => \A n \in k..3 : fs[PbFiles[n]].exists

\* The compression of the second output has failed half way: the first
\* output exists only compressed, the second and third .pb files remain.
C10_Witness ==
    /\ \E i \in DOMAIN ops : ops[i] = Op("compress", GzFiles[2], FALSE)
    /\ ~fs[PbFiles[1]].exists
    /\ fs[GzFiles[1]].exists
    /\ fs[PbFiles[2]].exists /\ fs[PbFiles[3]].exists
    /\ fs[GzFiles[2]].exists
    /\ fs[GzFiles[2]] # File(Gzip(Payload(2)))
    /\ fs0 = EmptyDir

====
